---- MODULE Spec2Model ----
(***************************************************************************)
(* Model of fast_prompt/chat/chat_gemini.py: the two Gemini client classes *)
(* ChatGemini and ChatVisionGemini, their constructor, the request method  *)
(* (one HTTP POST and the reshaping of its JSON answer) and batch_request  *)
(* (multiprocessing.Pool(processes=8).map over request).                   *)
(*                                                                         *)
(* Python values are represented as follows.  An optional value (None or a *)
(* value) is a sequence of length 0 or 1.  A dict is a record; a missing   *)
(* key is a missing field.  A list is a sequence.  A string built by       *)
(* concatenation is the sequence of its pieces.  The float 1e-4 is         *)
(* [mant |-> 1, exp |-> -4]; 0.95 is [mant |-> 95, exp |-> -2].            *)
(***************************************************************************)
EXTENDS Integers, Sequences, FiniteSets, TLC

\* ---------------------------------------------------------------- bounds
\* Longest list handed to batch_request (more than the 8 pool workers).
MaxBatch == 9

\* ------------------------------------------------------ program constants
\* mp.Pool(processes=8)
processes == 8
\* max_tokens: int = 1024
DefaultMaxTokens == 1024

DefaultTemperature == [mant |-> 1, exp |-> -4]
TopP == [mant |-> 95, exp |-> -2]

Classes == {"ChatGemini", "ChatVisionGemini"}

\* ------------------------------------------------------------ environment
\* fast_prompt.chat.utils.unit_price: the price table whose keys are the
\* supported model names.
unit_price_keys == {"gemini-1.5-pro", "gemini-1.5-flash"}

\* Model names a caller may pass to the constructor.
ModelNames == unit_price_keys \cup {"gpt-4o"}

\* The files on disk: path -> bytes.  "missing.png" does not exist.
FileSystem ==
    [p \in {"a.png", "b.png", "c.png"} |->
        CASE p = "a.png" -> <<137>>
          [] p = "b.png" -> <<255, 216>>
          [] p = "c.png" -> <<77, 97, 110, 0>>]

ImagePaths == DOMAIN FileSystem \cup {"missing.png"}

B64Alphabet ==
    << "A","B","C","D","E","F","G","H","I","J","K","L","M","N","O","P",
       "Q","R","S","T","U","V","W","X","Y","Z","a","b","c","d","e","f",
       "g","h","i","j","k","l","m","n","o","p","q","r","s","t","u","v",
       "w","x","y","z","0","1","2","3","4","5","6","7","8","9","+","/" >>

\* base64.b64encode: three bytes become four sextets, a short tail is padded.
RECURSIVE b64encode(_)
b64encode(bytes) ==
    IF Len(bytes) = 0 THEN <<>>
    ELSE LET b1 == bytes[1]
             b2 == IF Len(bytes) >= 2 THEN bytes[2] ELSE 0
             b3 == IF Len(bytes) >= 3 THEN bytes[3] ELSE 0
             n  == b1 * 65536 + b2 * 256 + b3
             c1 == B64Alphabet[(n \div 262144) + 1]
             c2 == B64Alphabet[((n \div 4096) % 64) + 1]
             c3 == B64Alphabet[((n \div 64) % 64) + 1]
             c4 == B64Alphabet[(n % 64) + 1]
         IN  IF Len(bytes) = 1 THEN <<c1, c2, "=", "=">>
             ELSE IF Len(bytes) = 2 THEN <<c1, c2, c3, "=">>
             ELSE <<c1, c2, c3, c4>> \o b64encode(SubSeq(bytes, 4, Len(bytes)))

\* fast_prompt.chat.utils.encode_image: the file's bytes, base64-encoded;
\* opening a file that does not exist raises.
encode_image(image_path) ==
    IF image_path \in DOMAIN FileSystem
    THEN [exc |-> "", data |-> b64encode(FileSystem[image_path])]
    ELSE [exc |-> "FileNotFoundError", data |-> <<>>]

VARIABLES
    environ,      \* os.environ: a set of <<name, value>> pairs
    client,       \* the client object the caller holds: <<>> or <<object>>
    ctor,         \* the last constructor call: its llm_model and what it raised
    pc,           \* the caller: "idle", "in_post", "returned", "raised"
    call,         \* the positional arguments of the request call in progress
    wire,         \* the POST in flight or last sent: <<>> or <<[url, headers, data]>>
    response,     \* what requests.post gave back: <<>> or <<answer>>
    result,       \* what request returned: <<>> or <<dict>>
    exc,          \* the exception request raised to its caller, "" for none
    bpc,          \* batch_request: "idle", "mapping", "returned", "raised"
    image_paths,  \* the list given to batch_request
    pool,         \* the mp.Pool of the call: its state and its live workers
    taskq,        \* the tasks (chunks) no worker has taken yet, in order
    running,      \* the tasks some worker is executing
    map_result,   \* the MapResult of pool.map
    results,      \* what batch_request returned: <<>> or <<list>>
    bexc,         \* the exception batch_request raised, "" for none
    peak          \* history: the most tasks executing at once in this call

vars == << environ, client, ctor, pc, call, wire, response, result, exc,
           bpc, image_paths, pool, taskq, running, map_result, results,
           bexc, peak >>

request_vars == << pc, call, wire, response, result, exc >>
batch_vars == << bpc, image_paths, pool, taskq, running, map_result,
                 results, bexc, peak >>

\* ------------------------------------------------------------- __init__
\* os.getenv(name): the value, or None when the variable is not set.
os_getenv(name) ==
    IF \E p \in environ : p[1] = name
    THEN << (CHOOSE p \in environ : p[1] = name)[2] >>
    ELSE <<>>

\* What an f-string writes for a value: str(None) is "None".
format_value(v) == IF Len(v) = 0 THEN "None" ELSE v[1]

\* Mutation: a missing key is written as the empty string.
api_url_blank_key(llm_model) ==
    << "https://generativelanguage.googleapis.com/v1beta/models/", llm_model,
       ":generateContent?key=",
       IF Len(os_getenv("GEMINI_API_KEY")) = 0 THEN ""
       ELSE os_getenv("GEMINI_API_KEY")[1] >>

api_url(llm_model) ==
    << "https://generativelanguage.googleapis.com/v1beta/models/", llm_model,
       ":generateContent?key=", format_value(os_getenv("GEMINI_API_KEY")) >>

headers == [ContentType |-> "application/json"]

\* Mutation: the constructor accepts every model name.
assert_raises_never(llm_model) == ""

\* assert llm_model in supported_llm_models
assert_raises(llm_model) ==
    IF llm_model \in unit_price_keys THEN "" ELSE "AssertionError"

\* ChatGemini(llm_model) / ChatVisionGemini(llm_model): the caller binds the
\* new object only when __init__ raised nothing.
new_client(cls, llm_model) ==
    /\ pc = "idle" /\ bpc = "idle"
    /\ ctor' = [cls |-> cls, llm_model |-> llm_model,
                exc |-> assert_raises(llm_model)]
    /\ client' = IF assert_raises(llm_model) = ""
                 THEN << [cls |-> cls,
                          api_url |-> api_url(llm_model),
                          headers |-> headers] >>
                 ELSE client
    /\ UNCHANGED << environ, request_vars, batch_vars >>

\* -------------------------------------------------------------- request
\* The binding of a call's positional arguments to request's parameters
\* (self excluded): the first parameter (system_prompt or image_path) and
\* user_prompt have no default, max_tokens and temperature have one.
bind(a) ==
    IF Len(a) < 2
    THEN [exc |-> "TypeError", first |-> "", user_prompt |-> "",
          max_tokens |-> DefaultMaxTokens, temperature |-> DefaultTemperature]
    ELSE [exc |-> "", first |-> a[1], user_prompt |-> a[2],
          max_tokens |-> IF Len(a) >= 3 THEN a[3] ELSE DefaultMaxTokens,
          temperature |-> DefaultTemperature]

generationConfig(max_tokens, temperature) ==
    [maxOutputTokens |-> max_tokens, temperature |-> temperature, topP |-> TopP]

safetySettings ==
    << [category |-> "HARM_CATEGORY_HATE_SPEECH",
        threshold |-> "BLOCK_MEDIUM_AND_ABOVE"],
       [category |-> "HARM_CATEGORY_DANGEROUS_CONTENT",
        threshold |-> "BLOCK_MEDIUM_AND_ABOVE"],
       [category |-> "HARM_CATEGORY_SEXUALLY_EXPLICIT",
        threshold |-> "BLOCK_MEDIUM_AND_ABOVE"],
       [category |-> "HARM_CATEGORY_HARASSMENT",
        threshold |-> "BLOCK_MEDIUM_AND_ABOVE"] >>

\* ChatGemini.request: the contents dict.
contents_text(system_prompt, user_prompt, max_tokens, temperature) ==
    [contents |-> << [role |-> "user",
                      parts |-> << [text |-> user_prompt] >>] >>,
     systemInstruction |-> [parts |-> << [text |-> system_prompt] >>],
     generationConfig |-> generationConfig(max_tokens, temperature),
     safetySettings |-> safetySettings]

\* Mutation: the text part is placed before the image part.
contents_vision_text_first(base64_image, user_prompt, max_tokens, temperature) ==
    [contents |-> << [role |-> "user",
                      parts |-> << [text |-> user_prompt],
                                   [inlineData |->
                                       [mimeType |-> "image/png",
                                        data |-> base64_image]] >>] >>,
     generationConfig |-> generationConfig(max_tokens, temperature),
     safetySettings |-> safetySettings]

\* ChatVisionGemini.request: the contents dict.
contents_vision(base64_image, user_prompt, max_tokens, temperature) ==
    [contents |-> << [role |-> "user",
                      parts |-> << [inlineData |->
                                       [mimeType |-> "image/png",
                                        data |-> base64_image]],
                                   [text |-> user_prompt] >>] >>,
     generationConfig |-> generationConfig(max_tokens, temperature),
     safetySettings |-> safetySettings]

\* json.dumps(contents): the JSON text, represented by the object it denotes.
json_dumps(obj) == [json |-> obj]

\* What a caller may pass as the first positional argument.
FirstArgs(cls) ==
    IF cls = "ChatVisionGemini" THEN ImagePaths ELSE {"sys1", "sys2"}

UserPrompts == {"p1", "p2"}
MaxTokensArgs == {DefaultMaxTokens, 16}

\* request(...) up to the moment requests.post has sent the payload and
\* blocks for the answer.  argc is the number of positional arguments given.
\* show_preview keeps its default False.
request_call(argc, first, user_prompt, max_tokens) ==
    /\ pc = "idle" /\ bpc = "idle" /\ Len(client) = 1
    /\ LET self == client[1]
           a    == SubSeq(<<first, user_prompt, max_tokens>>, 1, argc)
           b    == bind(a)
           img  == IF self.cls = "ChatVisionGemini"
                   THEN encode_image(b.first)
                   ELSE [exc |-> "", data |-> <<>>]
           c    == IF self.cls = "ChatVisionGemini"
                   THEN contents_vision(img.data, b.user_prompt,
                                        b.max_tokens, b.temperature)
                   ELSE contents_text(b.first, b.user_prompt,
                                      b.max_tokens, b.temperature)
       IN  /\ first \in FirstArgs(self.cls)
           /\ call' = a
           /\ IF b.exc # ""
              THEN /\ pc' = "raised" /\ exc' = b.exc /\ wire' = <<>>
              ELSE IF img.exc # ""
              THEN /\ pc' = "raised" /\ exc' = img.exc /\ wire' = <<>>
              ELSE /\ pc' = "in_post" /\ exc' = ""
                   /\ wire' = << [url |-> self.api_url,
                                  headers |-> self.headers,
                                  data |-> json_dumps(c)] >>
    /\ response' = <<>> /\ result' = <<>>
    /\ UNCHANGED << environ, client, ctor, batch_vars >>

\* What the model's text output may be: prose, or the JSON text of
\* {"scene_texts": [{"position": ..., "text": ...}, ...]}.  A text is the
\* sequence of its pieces; "\n" is a piece of its own.
Outputs ==
    { [kind |-> "prose", scene_texts |-> <<>>],
      [kind |-> "json", scene_texts |-> <<>>],
      [kind |-> "json",
       scene_texts |-> << [position |-> "top", text |-> <<"A", "\n", "B">>],
                          [position |-> "bottom", text |-> <<"Y">>],
                          [position |-> "top", text |-> <<"C">>] >>],
      [kind |-> "json",
       scene_texts |-> << [position |-> "left", text |-> <<"X">>] >>] }

UsageCounts == {3, 5}

\* A well-formed generateContent answer.
ok_doc(p, c, out) ==
    [usageMetadata |-> [promptTokenCount |-> p, candidatesTokenCount |-> c,
                        totalTokenCount |-> p + c],
     candidates |-> << [content |-> [parts |-> << [text |-> out] >>]] >>,
     modelVersion |-> "gemini-1.5-pro-002"]

\* Answers that lack something request reads.
bad_docs ==
    LET d == ok_doc(3, 5, [kind |-> "prose", scene_texts |-> <<>>])
    IN  { [error |-> "INVALID_ARGUMENT"],
          [candidates |-> d.candidates, modelVersion |-> d.modelVersion],
          [usageMetadata |-> d.usageMetadata, modelVersion |-> d.modelVersion],
          [usageMetadata |-> d.usageMetadata, candidates |-> <<>>,
           modelVersion |-> d.modelVersion],
          [usageMetadata |-> d.usageMetadata,
           candidates |-> << [finishReason |-> "SAFETY"] >>,
           modelVersion |-> d.modelVersion],
          [usageMetadata |-> d.usageMetadata, candidates |-> d.candidates],
          [usageMetadata |-> [promptTokenCount |-> 3, totalTokenCount |-> 3],
           candidates |-> d.candidates, modelVersion |-> d.modelVersion] }

\* What requests.post may give back: it raises, or it returns an HTTP answer
\* whose body is JSON (<<doc>>) or is not (<<>>).
Answers ==
    { [kind |-> "ConnectionError", body |-> <<>>],
      [kind |-> "http", body |-> <<>>] }
    \cup { [kind |-> "http", body |-> <<d>>] : d \in bad_docs }
    \cup { [kind |-> "http", body |-> << ok_doc(p, c, out) >>] :
             p \in UsageCounts, c \in UsageCounts, out \in Outputs }

UUIDs == {"uuid-1", "uuid-2"}

Raise(e) == [exc |-> e, value |-> <<>>]
Return(v) == [exc |-> "", value |-> <<v>>]

\* The statements after response.json(), in their order: each subscript that
\* finds no key or no element raises.
reshape(r, id, contents) ==
    IF "usageMetadata" \notin DOMAIN r THEN Raise("KeyError")
    ELSE IF "candidates" \notin DOMAIN r THEN Raise("KeyError")
    ELSE IF Len(r.candidates) = 0 THEN Raise("IndexError")
    ELSE IF "content" \notin DOMAIN r.candidates[1] THEN Raise("KeyError")
    ELSE IF "modelVersion" \notin DOMAIN r THEN Raise("KeyError")
    ELSE IF "candidatesTokenCount" \notin DOMAIN r.usageMetadata
         THEN Raise("KeyError")
    ELSE IF "totalTokenCount" \notin DOMAIN r.usageMetadata
         THEN Raise("KeyError")
    ELSE Return([request_id |-> id,
                 llm_model |-> r.modelVersion,
                 input |-> contents,
                 output |-> r.candidates[1].content.parts[1].text,
                 complete_tokens |-> r.usageMetadata.candidatesTokenCount,
                 prompt_tokens |-> r.usageMetadata.totalTokenCount])

\* requests.post(...) through return result, for one answer of the network.
request_outcome(a, id, contents) ==
    IF a.kind = "ConnectionError" THEN Raise("ConnectionError")
    ELSE IF Len(a.body) = 0 THEN Raise("JSONDecodeError")
    ELSE reshape(a.body[1], id, contents)

\* The network answers the POST in flight and request runs to its end.  No
\* timeout is passed to requests.post: while no answer comes the call stays
\* in "in_post".
post_responds(a, id) ==
    /\ pc = "in_post"
    /\ LET o == request_outcome(a, id, wire[1].data.json)
       IN  /\ response' = <<a>>
           /\ result' = o.value
           /\ exc' = o.exc
           /\ pc' = IF o.exc = "" THEN "returned" ELSE "raised"
    /\ UNCHANGED << environ, client, ctor, call, wire, batch_vars >>

\* The caller goes on after a call has returned or raised: the frame of the
\* call is gone.
caller_continues ==
    /\ \/ pc \in {"returned", "raised"}
       \/ bpc \in {"returned", "raised"}
    /\ pc' = "idle" /\ call' = <<>> /\ wire' = <<>> /\ response' = <<>>
    /\ result' = <<>> /\ exc' = ""
    /\ bpc' = "idle" /\ image_paths' = <<>>
    /\ pool' = [state |-> "none", workers |-> 0]
    /\ taskq' = <<>> /\ running' = {}
    /\ map_result' = [number_left |-> 0, success |-> TRUE, value |-> <<>>,
                      error |-> ""]
    /\ results' = <<>> /\ bexc' = "" /\ peak' = 0
    /\ UNCHANGED << environ, client, ctor >>

\* -------------------------------------------------------- batch_request
\* Pool.map's chunksize: divmod(len(iterable), len(self._pool) * 4), one
\* more when there is a remainder, 0 for an empty iterable.
chunksize(n) ==
    IF n = 0 THEN 0
    ELSE (n \div (processes * 4))
         + (IF n % (processes * 4) # 0 THEN 1 ELSE 0)

\* Pool._get_tasks: the items cut into chunks of `size`, in order.  Chunk
\* number i (from 1) holds the items from position `first` on.
RECURSIVE get_tasks(_, _, _, _)
get_tasks(items, size, i, first) ==
    IF Len(items) = 0 THEN <<>>
    ELSE LET k == IF size < Len(items) THEN size ELSE Len(items)
         IN  << [i |-> i, first |-> first, chunk |-> SubSeq(items, 1, k)] >>
             \o get_tasks(SubSeq(items, k + 1, Len(items)), size, i + 1,
                          first + k)

\* The lists a caller may hand to batch_request.
PathCycle == << "a.png", "missing.png", "b.png", "c.png" >>
BatchInput(n) == [i \in 1..n |-> PathCycle[((i - 1) % Len(PathCycle)) + 1]]

\* with mp.Pool(processes=8) as pool: pool.map(self.request, image_paths)
\* up to the point where map waits for its MapResult.
batch_request_call(n) ==
    /\ pc = "idle" /\ bpc = "idle" /\ Len(client) = 1
    /\ LET paths == BatchInput(n)
           tasks == get_tasks(paths, chunksize(n), 1, 1)
       IN  /\ image_paths' = paths
           /\ taskq' = tasks
           /\ map_result' = [number_left |-> Len(tasks), success |-> TRUE,
                             value |-> [i \in 1..n |-> <<>>], error |-> ""]
    /\ pool' = [state |-> "RUN", workers |-> processes]
    /\ running' = {} /\ peak' = 0
    /\ bpc' = "mapping" /\ results' = <<>> /\ bexc' = ""
    /\ UNCHANGED << environ, client, ctor, request_vars >>

\* Mutation: as many workers as there are items.
idle_workers_per_item == Len(image_paths) - Cardinality(running)

\* The pool's worker processes that are executing no task.  The workers are
\* interchangeable: the state keeps the tasks in execution, not which
\* worker holds which.
idle_workers == pool.workers - Cardinality(running)

\* A worker process takes the next task from the pool's queue.
worker_take ==
    /\ bpc = "mapping" /\ pool.state = "RUN"
    /\ Len(taskq) > 0 /\ idle_workers > 0
    /\ running' = running \cup {Head(taskq)}
    /\ taskq' = Tail(taskq)
    /\ peak' = IF Cardinality(running') > peak
               THEN Cardinality(running') ELSE peak
    /\ UNCHANGED << environ, client, ctor, request_vars, bpc, image_paths,
                    pool, map_result, results, bexc >>

\* A worker runs its task, mapstar: list(map(self.request, chunk)), and the
\* result handler files the outcome, MapResult._set.  map calls
\* self.request(item) with the item as the only positional argument, so the
\* binding of user_prompt fails before any statement of request runs; the
\* first exception of the chunk is the chunk's outcome.
worker_finish(t) ==
    /\ bpc = "mapping" /\ t \in running
    /\ LET b == bind(<< t.chunk[1] >>)
       IN  /\ b.exc # ""
           /\ map_result' =
                [map_result EXCEPT
                   !.number_left = @ - 1,
                   !.success = FALSE,
                   !.error = IF map_result.success THEN b.exc ELSE @]
    /\ running' = running \ {t}
    /\ UNCHANGED << environ, client, ctor, request_vars, bpc, image_paths,
                    pool, taskq, results, bexc, peak >>

\* MapResult is ready once no job is left: map returns its list or raises
\* the stored exception; leaving the with block calls pool.terminate().
batch_request_exit ==
    /\ bpc = "mapping" /\ map_result.number_left = 0
    /\ pool' = [state |-> "TERMINATE", workers |-> 0]
    /\ running' = {} /\ taskq' = <<>>
    /\ IF map_result.success
       THEN /\ bpc' = "returned" /\ results' = << map_result.value >>
            /\ bexc' = ""
       ELSE /\ bpc' = "raised" /\ results' = <<>>
            /\ bexc' = map_result.error
    /\ UNCHANGED << environ, client, ctor, request_vars, image_paths,
                    map_result, peak >>

\* ------------------------------------------------------- specification
Init ==
    /\ environ \in { {}, { <<"GEMINI_API_KEY", "AIzaSy-key">> } }
    /\ client = <<>>
    /\ ctor = [cls |-> "", llm_model |-> "", exc |-> ""]
    /\ pc = "idle" /\ call = <<>> /\ wire = <<>> /\ response = <<>>
    /\ result = <<>> /\ exc = ""
    /\ bpc = "idle" /\ image_paths = <<>>
    /\ pool = [state |-> "none", workers |-> 0]
    /\ taskq = <<>> /\ running = {}
    /\ map_result = [number_left |-> 0, success |-> TRUE, value |-> <<>>,
                     error |-> ""]
    /\ results = <<>> /\ bexc = "" /\ peak = 0

Next ==
    \/ \E cls \in Classes, m \in ModelNames : new_client(cls, m)
    \/ \E argc \in 1..3, first \in ImagePaths \cup {"sys1", "sys2"},
          up \in UserPrompts, mt \in MaxTokensArgs :
          request_call(argc, first, up, mt)
    \/ \E a \in Answers, id \in UUIDs : post_responds(a, id)
    \/ \E n \in 0..MaxBatch : batch_request_call(n)
    \/ worker_take
    \/ \E t \in running : worker_finish(t)
    \/ batch_request_exit
    \/ caller_continues

Spec == Init /\ [][Next]_vars

\* ------------------------------------------- the grouping of scene texts
\* The response grouper as the specification describes it (sections 3 and
\* 4.2); chat_gemini.py holds no such routine.
DescriptionTemplates ==
    [top    |-> [pre |-> <<"Top says: ">>, post |-> <<>>],
     bottom |-> [pre |-> <<"B:">>, post |-> <<>>]]

\* Step 1: every newline becomes one space.
normalize(text) ==
    [i \in 1..Len(text) |-> IF text[i] = "\n" THEN " " ELSE text[i]]

\* Step 2: groups keyed by position, keys in first-seen order, texts in
\* insertion order.
RECURSIVE group_by_position(_, _)
group_by_position(items, groups) ==
    IF Len(items) = 0 THEN groups
    ELSE LET it == Head(items)
             t  == normalize(it.text)
             at == {j \in 1..Len(groups) : groups[j].position = it.position}
         IN  group_by_position(
                 Tail(items),
                 IF at = {}
                 THEN Append(groups, [position |-> it.position, texts |-> <<t>>])
                 ELSE [groups EXCEPT ![CHOOSE j \in at : TRUE].texts =
                                          Append(@, t)])

\* The pieces joined with a separator piece.
RECURSIVE join(_, _)
join(sep, seqs) ==
    IF Len(seqs) = 0 THEN <<>>
    ELSE IF Len(seqs) = 1 THEN seqs[1]
    ELSE seqs[1] \o <<sep>> \o join(sep, Tail(seqs))

\* Step 3: the texts as a JSON array, its own brackets stripped, put into
\* the position's template.
render_group(g, templates) ==
    LET quoted == [i \in 1..Len(g.texts) |-> <<"\"">> \o g.texts[i] \o <<"\"">>]
        array  == <<"[">> \o join(", ", quoted) \o <<"]">>
        inner  == SubSeq(array, 2, Len(array) - 1)
    IN  templates[g.position].pre \o inner \o templates[g.position].post

\* Steps 1 to 4; a position without a template is a lookup error.
group_and_format(items, templates) ==
    LET groups == group_by_position(items, <<>>)
    IN  IF \E j \in 1..Len(groups) : groups[j].position \notin DOMAIN templates
        THEN [exc |-> "KeyError", sentence |-> <<>>]
        ELSE [exc |-> "",
              sentence |-> join(". ", [j \in 1..Len(groups) |->
                                          render_group(groups[j], templates)])]

\* The fallback result of the specification's sections 4.2 and 8.
Fallback == [output |-> <<>>, sentence |-> <<>>, usage |-> <<>>]

\* ----------------------------------------------------------- properties
Ended(p) == p \in {"returned", "raised"}

\* The index of a base64 character in the alphabet, from 0; "=" counts 0.
b64index(c) ==
    IF c = "=" THEN 0
    ELSE (CHOOSE i \in 1..Len(B64Alphabet) : B64Alphabet[i] = c) - 1

\* The bytes a base64 text stands for.
RECURSIVE b64decode(_)
b64decode(text) ==
    IF Len(text) < 4 THEN <<>>
    ELSE LET n == b64index(text[1]) * 262144 + b64index(text[2]) * 4096
                  + b64index(text[3]) * 64 + b64index(text[4])
             all == << n \div 65536, (n \div 256) % 256, n % 256 >>
             k == IF text[3] = "=" THEN 1 ELSE IF text[4] = "=" THEN 2 ELSE 3
         IN  SubSeq(all, 1, k) \o b64decode(SubSeq(text, 5, Len(text)))

\* C1: batch_request returns, for every input list, a list of the same
\* length whose i-th entry is the result of request on the i-th input.
C1_BatchReturnsResultsInInputOrder ==
    Ended(bpc) =>
        /\ bpc = "returned"
        /\ Len(results) = 1
        /\ Len(results[1]) = Len(image_paths)
        /\ \A i \in 1..Len(image_paths) :
              /\ Len(results[1][i]) = 1
              /\ results[1][i][1].input.contents[1].parts[1].inlineData.data
                    = encode_image(image_paths[i]).data

\* The answer of the network is one request reshapes without raising.
WellFormed(a) ==
    /\ a.kind = "http" /\ Len(a.body) = 1
    /\ reshape(a.body[1], "uuid-1", <<>>).exc = ""

\* C2: request never propagates a failure: when a stage fails it returns the
\* fallback result (empty item list, empty sentence, empty usage map).
C2_RequestNeverPropagatesFailure ==
    (Ended(pc) /\ Len(response) = 1 /\ ~WellFormed(response[1])) =>
        /\ pc = "returned"
        /\ result = << Fallback >>

\* The items of the batch whose call of request fails.
FailedItems == {i \in 1..Len(image_paths) : bind(<< image_paths[i] >>).exc # ""}

\* C3: when exactly one item's call fails, batch_request still returns a
\* list of the input's length, with the fallback result in that item's slot
\* and every other item's own result in its slot.
C3_BatchFailureIsolatedToItsSlot ==
    (Ended(bpc) /\ Cardinality(FailedItems) = 1) =>
        /\ bpc = "returned"
        /\ Len(results) = 1
        /\ Len(results[1]) = Len(image_paths)
        /\ \A i \in 1..Len(image_paths) :
              IF i \in FailedItems
              THEN results[1][i] = << Fallback >>
              ELSE Len(results[1][i]) = 1

\* C4: a model name outside the supported list fails the constructor with
\* an assertion error, so no client and no request exists for it; a
\* supported name constructs the client.
C4_UnsupportedModelFailsConstruction ==
    /\ Len(client) = 1 => client[1].api_url[2] \in unit_price_keys
    /\ Len(wire) = 1 => wire[1].url[2] \in unit_price_keys
    /\ ctor.llm_model # "" =>
          IF ctor.llm_model \in unit_price_keys
          THEN /\ ctor.exc = ""
               /\ Len(client) = 1
               /\ client[1].cls = ctor.cls
               /\ client[1].api_url[2] = ctor.llm_model
          ELSE ctor.exc = "AssertionError"

\* C4 witness: a constructor call with an unsupported name has failed and
\* the caller holds no client.
C4_Witness ==
    /\ ctor.llm_model = "gpt-4o" /\ ctor.exc = "AssertionError"
    /\ Len(client) = 0

\* C5: without GEMINI_API_KEY the constructor raises nothing for a supported
\* model; the client's URL carries no real key ("None" stands in its key
\* parameter) and every POST goes to that URL.
C5_MissingKeyGivesMalformedUrl ==
    Len(os_getenv("GEMINI_API_KEY")) = 0 =>
        /\ ctor.llm_model \in unit_price_keys =>
              (ctor.exc = "" /\ Len(client) = 1)
        /\ Len(client) = 1 =>
              /\ client[1].api_url[3] = ":generateContent?key="
              /\ client[1].api_url[4] = "None"
        /\ Len(wire) = 1 => wire[1].url = client[1].api_url

\* C5 witness: no key is set and a POST is in flight.
C5_Witness ==
    /\ Len(os_getenv("GEMINI_API_KEY")) = 0
    /\ pc = "in_post" /\ Len(wire) = 1

HarmCategories ==
    { "HARM_CATEGORY_HATE_SPEECH", "HARM_CATEGORY_DANGEROUS_CONTENT",
      "HARM_CATEGORY_SEXUALLY_EXPLICIT", "HARM_CATEGORY_HARASSMENT" }

\* C6: the request object has one turn, of role user, whose parts are the
\* inline base64 image tagged with a MIME type exactly when there is an
\* image, then one text part with the prompt; it carries generationConfig
\* (maxOutputTokens, temperature, topP = 0.95) and the four safety settings
\* at BLOCK_MEDIUM_AND_ABOVE.
C6_RequestObjectShape ==
    Len(wire) = 1 =>
        LET c     == wire[1].data.json
            parts == c.contents[1].parts
            s     == c.safetySettings
        IN  /\ Len(c.contents) = 1
            /\ c.contents[1].role = "user"
            /\ IF client[1].cls = "ChatVisionGemini"
               THEN /\ Len(parts) = 2
                    /\ DOMAIN parts[1] = {"inlineData"}
                    /\ parts[1].inlineData.mimeType = "image/png"
                    /\ b64decode(parts[1].inlineData.data) = FileSystem[call[1]]
                    /\ parts[2] = [text |-> call[2]]
               ELSE /\ Len(parts) = 1
                    /\ parts[1] = [text |-> call[2]]
            /\ c.generationConfig.maxOutputTokens =
                  (IF Len(call) >= 3 THEN call[3] ELSE 1024)
            /\ c.generationConfig.temperature = [mant |-> 1, exp |-> -4]
            /\ c.generationConfig.topP = [mant |-> 95, exp |-> -2]
            /\ Len(s) = 4
            /\ {s[i].category : i \in 1..4} = HarmCategories
            /\ \A i \in 1..4 : s[i].threshold = "BLOCK_MEDIUM_AND_ABOVE"

\* C6 witness: a vision request with an image and an explicit max_tokens
\* has been sent.
C6_Witness ==
    /\ pc = "in_post" /\ Len(wire) = 1
    /\ client[1].cls = "ChatVisionGemini"
    /\ Len(call) = 3 /\ call[1] = "c.png"

\* C7: on a successful answer request returns a dict with the request ID,
\* the output text and the completion, prompt and total token counts of the
\* answer's usageMetadata.
C7_ResultCarriesTokenCounts ==
    pc = "returned" =>
        LET r == result[1]
            u == response[1].body[1].usageMetadata
        IN  /\ {"request_id", "output", "complete_tokens", "prompt_tokens",
                "total_tokens"} \subseteq DOMAIN r
            /\ r.output = response[1].body[1].candidates[1].content.parts[1].text
            /\ r.complete_tokens = u.candidatesTokenCount
            /\ r.prompt_tokens = u.promptTokenCount
            /\ r.total_tokens = u.totalTokenCount

\* C8: the post-processing groups the scene_texts items by position, groups
\* in first-seen order and texts in input order, and the returned sentence
\* is the rendered groups joined with ". " (empty for an empty list).
C8_SentenceGroupsByPosition ==
    (pc = "returned" /\ result[1].output.kind = "json") =>
        LET g == group_and_format(result[1].output.scene_texts,
                                  DescriptionTemplates)
        IN  g.exc = "" =>
              /\ "sentence" \in DOMAIN result[1]
              /\ result[1].sentence = g.sentence

\* C9: never more than 8 item requests are in progress, and once
\* batch_request has ended, by return or by exception, its pool is torn
\* down and no worker of it is alive or running a request.
C9_PoolBoundedAndTornDown ==
    /\ Cardinality(running) <= 8
    /\ peak <= 8
    /\ pool.workers <= 8
    /\ Ended(bpc) =>
          /\ pool.state = "TERMINATE" /\ pool.workers = 0 /\ running = {}
    /\ bpc = "idle" => (pool.workers = 0 /\ running = {})

\* C9 witness: a batch of more items than workers has ended by an exception
\* after 8 requests were in progress at once, and its pool is torn down.
C9_Witness ==
    /\ bpc = "raised" /\ Len(image_paths) > 8 /\ peak = 8
    /\ pool.state = "TERMINATE"

\* C10: batch_request ends only after every item's request has completed,
\* and once every item's network call has answered it returns.
C10_BatchReturnsOnceEveryItemAnswered ==
    Ended(bpc) =>
        /\ map_result.number_left = 0
        /\ (Len(image_paths) > 0 => (bpc = "returned" /\ map_result.success))

====
